---- MODULE Spec2Model ----
(***************************************************************************)
(* Subscription / invoice / payment lifecycle of src/common/subscriptions.js *)
(* Every exported function is a sequence of awaited calls; each await is    *)
(* one step of the invocation, so invocations interleave at the awaits.     *)
(***************************************************************************)
EXTENDS Integers, Sequences, FiniteSets, TLC

\* ------------------------------------------------------------- bounds
\* Concurrent invocation slots (callers that may be in flight at once).
Procs == {1, 2}
\* Total number of invocations started in one behaviour.
MaxCalls == 2
\* The same, for a caller that runs its invocations one at a time.
MaxSerialCalls == 4
\* Last day the clock reaches.
MaxDay == 1
\* Rows the subscriptions table and the invoices table may each hold.
MaxRows == 2
\* Invocations of the lifecycle functions made one at a time.
MaxLifeCalls == 4
\* The count of INSERTs kept per (invoice, transaction) stops here.
MaxIngested == 4

\* ---------------------------------------------------------- constants
\* Base units per display unit.  The source divides by 1000000000000; TLC's
\* integers are 32 bits wide, so the model counts base units in steps of
\* 10^9 and only uses amounts that are whole display units.
MojoPerXch == 1000
\* setFullYear(getFullYear() + 1), in days.
YearDays == 365
\* expirationDate.setDate(currentDate.getDate() + 15)
ExpirationDays == 15

\* Product catalog (products.config.json): key -> {cmd, cost}.
ProductKeys == {"basic", "pro"}
Products == [k \in ProductKeys |->
               IF k = "basic" THEN [cmd |-> "CMD_BASIC", cost |-> 6]
                              ELSE [cmd |-> "CMD_PRO", cost |-> 10]]

\* On-chain transactions the gateway may come to report, in list order.
TxOrder == <<"a", "b">>
TxNames == {TxOrder[i] : i \in 1..Len(TxOrder)}
TxAmount == [n \in TxNames |-> IF n = "a" THEN 6 * MojoPerXch ELSE 5 * MojoPerXch]
TxAddress == [n \in TxNames |-> 1]

VARIABLES
  now,         \* current day
  subs,        \* subscriptions table: id -> row
  invoices,    \* invoices table: guid -> row
  payments,    \* payments table: sequence of rows
  chain,       \* per transaction: "absent" | "unconfirmed" | "confirmed"
  pc,          \* per slot: the await the invocation is at
  op,          \* per slot: the exported function invoked
  arg,         \* per slot: its argument
  loc,         \* per slot: its local variables
  settled,     \* per slot: state of the returned promise
  result,      \* per slot: value the promise resolved with
  activations, \* per invoice guid: times confirmPayment set its subscription active
  dispatches,  \* per invoice guid: times the activation command was sent
  ingested,    \* per invoice guid and transaction: INSERTs executed for it
  reported,    \* per invoice guid: largest confirmed total a gateway answer showed
  calls,       \* invocations started so far
  nextAddress  \* next receiving address the wallet hands out

vars == <<now, subs, invoices, payments, chain, pc, op, arg, loc, settled,
          result, activations, dispatches, ingested, reported, calls,
          nextAddress>>

db == <<subs, invoices, payments>>
hist == <<activations, dispatches, ingested, reported>>
env == <<now, chain, nextAddress>>

NoInvoice == [subscription_id |-> 0, total_amount_due |-> 0, amount_paid |-> 0,
              xch_payment_address |-> 0, status |-> "none"]
NoSub == [id |-> 0, status |-> "none", end_date |-> 0, cmd |-> "none"]
NoResult == [kind |-> "none"]

LocInit == [inv |-> NoInvoice, seen |-> "none", todo |-> <<>>, sum |-> 0,
            sub |-> NoSub, ids |-> {}, day |-> 0, product |-> "none",
            address |-> 0, guid |-> 0]

Upd(f, p, v) == [f EXCEPT ![p] = v]

\* ------------------------------------------------- promise settlement
\* Once the promise is settled or abandoned the locals are dead; what the
\* invocation saw of the gateway, the total it computed and the date it took
\* from the clock are kept for the record.
Dead(locals) == [LocInit EXCEPT !.seen = locals.seen, !.sum = locals.sum,
                                !.day = locals.day]

\* resolve(v): the executor runs no further code that changes state.
Resolve(p, v, locals) ==
  /\ pc' = Upd(pc, p, "done")
  /\ settled' = Upd(settled, p, "resolved")
  /\ result' = Upd(result, p, v)
  /\ loc' = Upd(loc, p, Dead(locals))

\* reject(error)
Reject(p, locals) ==
  /\ pc' = Upd(pc, p, "done")
  /\ settled' = Upd(settled, p, "rejected")
  /\ loc' = Upd(loc, p, Dead(locals))
  /\ UNCHANGED result

\* A throw inside `new Promise(async (resolve, reject) => ...)` outside any
\* try block rejects the executor's own promise, which nobody observes: the
\* promise handed to the caller is never resolved nor rejected.  (A runtime
\* that treats unhandled rejections as fatal ends the process instead; the
\* caller gets no answer then either.)
Abandon(p, locals) ==
  /\ pc' = Upd(pc, p, "done")
  /\ loc' = Upd(loc, p, Dead(locals))
  /\ UNCHANGED <<settled, result>>

\* The invocation goes on to its next await.
Goto(p, label, locals) ==
  /\ pc' = Upd(pc, p, label)
  /\ loc' = Upd(loc, p, locals)
  /\ UNCHANGED <<settled, result>>

InvoiceResult(inv) == [kind |-> "invoice", value |-> inv]
IdResult(id) == [kind |-> "id", value |-> id]
CountResult(n) == [kind |-> "count", value |-> n]
SubResult(sub) == [kind |-> "subscription", value |-> sub]
VoidResult == [kind |-> "void"]

\* ------------------------------------------------------ Chain Gateway
\* transaction.amount / 1000000000000
ToXch(mojos) == mojos \div MojoPerXch

\* GET_TRANSACTIONS result for an address: what the chain shows right now.
GetTransactions(address) ==
  LET names == SelectSeq(TxOrder, LAMBDA n : chain[n] # "absent" /\ TxAddress[n] = address)
  IN  [i \in 1..Len(names) |->
         [name |-> names[i], amount |-> TxAmount[names[i]],
          confirmed |-> (chain[names[i]] = "confirmed")]]

Max(a, b) == IF a >= b THEN a ELSE b

\* Display-unit total of a list of transactions.
RECURSIVE ConfirmedTotal(_)
ConfirmedTotal(transactions) ==
  IF transactions = <<>> THEN 0
  ELSE ToXch(Head(transactions).amount) + ConfirmedTotal(Tail(transactions))

\* A loop that inserts every transaction of the answer.
AllTransactions(transactions) == transactions

\* `if (transaction.confirmed)`: the transactions the loop inserts.
ConfirmedOnly(transactions) == SelectSeq(transactions, LAMBDA t : t.confirmed)

\* A transaction appears at the address, then confirms.
ChainAdvance(n) ==
  /\ chain[n] # "confirmed"
  /\ chain' = [chain EXCEPT ![n] = IF chain[n] = "absent" THEN "unconfirmed" ELSE "confirmed"]
  /\ UNCHANGED <<now, db, pc, op, arg, loc, settled, result, hist, calls,
                 nextAddress>>

Tick ==
  /\ now < MaxDay
  /\ now' = now + 1
  /\ UNCHANGED <<db, chain, pc, op, arg, loc, settled, result, hist, calls,
                 nextAddress>>

\* ------------------------------------------------------- Ledger Store
\* Uniqueness of (invoice_guid, coin_name) in the payments table.
DuplicateKey(rows, r) ==
  \E i \in 1..Len(rows) :
     rows[i].invoice_guid = r.invoice_guid /\ rows[i].coin_name = r.coin_name

\* The values bound into the INSERT of one transaction.
PaymentValues(transaction, invoiceId) ==
  [invoice_guid |-> invoiceId, coin_name |-> transaction.name,
   amount |-> ToXch(transaction.amount)]

\* A plain INSERT into a table without the unique key.
InsertAlways(rows, r) == Append(rows, r)

\* INSERT IGNORE INTO payments
InsertIgnore(rows, r) == IF DuplicateKey(rows, r) THEN rows ELSE Append(rows, r)

\* An UPDATE that rewrites the whole row from the invoice as first loaded.
SetAmountPaidAndStatus(inv, amount) == [inv EXCEPT !.amount_paid = amount, !.status = "unpaid"]

\* UPDATE invoices SET amount_paid = :amount_paid WHERE guid = :invoiceId
SetAmountPaid(inv, amount) == [inv EXCEPT !.amount_paid = amount]

\* The status update left out.
LeaveUnpaid(inv) == inv

\* UPDATE invoices SET status = 'paid' WHERE guid = :guid
MarkPaid(inv) == [inv EXCEPT !.status = "paid"]

\* UPDATE subscriptions SET status = 'active' WHERE id = :subscriptionId
Activate(sub) == [sub EXCEPT !.status = "active"]

\* ------------------------------------------------- starting a call
\* No invocation is running code (each has settled or been abandoned).
Quiet == \A q \in Procs : pc[q] \in {"idle", "done"}

\* A slot whose caller is not waiting for an answer.
Free(q) == pc[q] = "idle" \/ (pc[q] = "done" /\ settled[q] # "pending")

\* The exported function o is called with argument a: its executor runs up
\* to its first await.
Enter(p, o, a, first, locals) ==
  /\ Free(p)
  /\ pc' = Upd(pc, p, first)
  /\ op' = Upd(op, p, o)
  /\ arg' = Upd(arg, p, a)
  /\ loc' = Upd(loc, p, locals)
  /\ settled' = Upd(settled, p, "pending")
  /\ result' = Upd(result, p, NoResult)
  /\ UNCHANGED <<env, db, hist>>

\* Slots are interchangeable: a new invocation takes the lowest free one.
Begin(p, o, a, first, locals, limit) ==
  /\ \A q \in Procs : Free(q) => p <= q
  /\ calls < limit
  /\ calls' = calls + 1
  /\ Enter(p, o, a, first, locals)

\* Calls made one after the other take the slots in turn, so the answer to
\* the previous call is still there while the next one runs.
BeginInTurn(p, o, a, first, locals, limit) ==
  /\ Quiet
  /\ p = (calls % Cardinality(Procs)) + 1
  /\ calls < limit
  /\ calls' = calls + 1
  /\ Enter(p, o, a, first, locals)

\* ----------------------------------------------------- checkForPayment
StartCheckForPayment(p, invoiceId) ==
  Begin(p, "checkForPayment", invoiceId, "cfp_select", LocInit, MaxCalls)

\* The same call made by a poller that waits for its previous call to end.
StartSerialCheckForPayment(p, invoiceId) ==
  /\ Quiet
  /\ Begin(p, "checkForPayment", invoiceId, "cfp_select", LocInit, MaxSerialCalls)

\* The early return left out.
NeverAlreadyPaid(inv) == FALSE

\* `if (invoice.status === "paid")`
AlreadyPaid(inv) == inv.status = "paid"

\* SELECT * FROM invoices WHERE guid = :invoiceId, then the two early returns.
CfpSelect(p) ==
  /\ pc[p] = "cfp_select"
  /\ IF arg[p] \notin DOMAIN invoices
       THEN Reject(p, loc[p])
       ELSE LET invoice == invoices[arg[p]] IN
            IF AlreadyPaid(invoice)
              THEN Resolve(p, InvoiceResult(invoice), loc[p])
              ELSE Goto(p, "cfp_rpc", [loc[p] EXCEPT !.inv = invoice])
  /\ UNCHANGED <<env, db, op, arg, hist, calls>>

\* `if (!totalXchPaid) throw`, evaluated when the insert loop has ended.
AfterInserts(p, locals) ==
  IF locals.sum = 0
    THEN Reject(p, locals)
    ELSE Goto(p, "cfp_update", locals)

\* sendChiaRPCCommand(GET_TRANSACTIONS) answered with a result list.
CfpRpcList(p) ==
  /\ pc[p] = "cfp_rpc"
  /\ LET todo == ConfirmedOnly(GetTransactions(loc[p].inv.xch_payment_address))
         locals == [loc[p] EXCEPT !.todo = todo,
                                  !.seen = IF todo = <<>> THEN "unconfirmed" ELSE "confirmed"]
     IN  /\ reported' = [reported EXCEPT ![arg[p]] = Max(@, ConfirmedTotal(todo))]
         /\ IF todo = <<>>
              THEN AfterInserts(p, locals)
              ELSE Goto(p, "cfp_insert", locals)
  /\ UNCHANGED <<env, db, op, arg, activations, dispatches, ingested, calls>>

\* The answer carries no result: `if (!addressTransactions) throw`.
CfpRpcNoResult(p) ==
  /\ pc[p] = "cfp_rpc"
  /\ Reject(p, [loc[p] EXCEPT !.seen = "noresult"])
  /\ UNCHANGED <<env, db, op, arg, hist, calls>>

\* One turn of the loop of insertTransactionsAndCalculateSum.
CfpInsert(p) ==
  /\ pc[p] = "cfp_insert"
  /\ LET transaction == Head(loc[p].todo)
         locals == [loc[p] EXCEPT !.sum = @ + ToXch(transaction.amount),
                                  !.todo = Tail(@)] IN
     /\ payments' = InsertIgnore(payments, PaymentValues(transaction, arg[p]))
     /\ ingested' = [ingested EXCEPT ![arg[p]][transaction.name] =
                                       IF @ < MaxIngested THEN @ + 1 ELSE @]
     /\ IF locals.todo = <<>>
          THEN AfterInserts(p, locals)
          ELSE Goto(p, "cfp_insert", locals)
  /\ UNCHANGED <<env, subs, invoices, op, arg, activations, dispatches, reported, calls>>

\* `totalXchPaid >= invoice.total_amount_due`
Settles(totalXchPaid, inv) == totalXchPaid >= inv.total_amount_due

\* The UPDATE of amount_paid, then the settlement decision.
CfpUpdate(p) ==
  /\ pc[p] = "cfp_update"
  /\ invoices' = [invoices EXCEPT ![arg[p]] = SetAmountPaid(@, loc[p].sum)]
  /\ IF Settles(loc[p].sum, loc[p].inv)
       THEN Goto(p, "cp_mark", loc[p])
       ELSE Resolve(p, InvoiceResult(loc[p].inv), loc[p])
  /\ UNCHANGED <<env, subs, payments, op, arg, hist, calls>>

\* ------------------------------------------------------ confirmPayment
StartConfirmPayment(p, guid) ==
  Begin(p, "confirmPayment", guid, "cp_mark", LocInit, MaxCalls)

\* UPDATE invoices SET status = 'paid'; affectedRows === 0 rejects.
CpMark(p) ==
  /\ pc[p] = "cp_mark"
  /\ IF arg[p] \notin DOMAIN invoices
       THEN Reject(p, loc[p]) /\ UNCHANGED invoices
       ELSE /\ invoices' = [invoices EXCEPT ![arg[p]] = MarkPaid(@)]
            /\ Goto(p, "cp_select_sub", loc[p])
  /\ UNCHANGED <<env, subs, payments, op, arg, hist, calls>>

\* Row of the subscriptions table as a SELECT returns it.
SubRow(id) == [id |-> id, status |-> subs[id].status, end_date |-> subs[id].end_date,
               cmd |-> subs[id].cmd]

\* SELECT s.* FROM subscriptions s JOIN invoices i ...
CpSelectSub(p) ==
  /\ pc[p] = "cp_select_sub"
  /\ LET sid == invoices[arg[p]].subscription_id IN
     IF sid \notin DOMAIN subs
       THEN Reject(p, loc[p])
       ELSE Goto(p, "cp_update_sub", [loc[p] EXCEPT !.sub = SubRow(sid)])
  /\ UNCHANGED <<env, db, op, arg, hist, calls>>

\* UPDATE subscriptions SET status = 'active'
CpUpdateSub(p) ==
  /\ pc[p] = "cp_update_sub"
  /\ subs' = [subs EXCEPT ![loc[p].sub.id] = Activate(@)]
  /\ activations' = [activations EXCEPT ![arg[p]] = @ + 1]
  /\ Goto(p, "cp_rpc", loc[p])
  /\ UNCHANGED <<env, invoices, payments, op, arg, dispatches, ingested, reported, calls>>

\* sendChiaRPCCommand(rpc[subscriptionData.cmd], ...) answered; then resolve.
\* Inside checkForPayment the caller resolves with the invoice it loaded.
CpRpc(p) ==
  /\ pc[p] = "cp_rpc"
  /\ dispatches' = [dispatches EXCEPT ![arg[p]] = @ + 1]
  /\ Resolve(p, IF op[p] = "checkForPayment" THEN InvoiceResult(loc[p].inv)
                                             ELSE IdResult(loc[p].sub.id), loc[p])
  /\ UNCHANGED <<env, db, op, arg, activations, ingested, reported, calls>>

\* Invocations that will still insert an invoice / a subscription.
Creating(ops) == {q \in Procs : op[q] \in ops /\ pc[q] \notin {"idle", "done"}}
InvoiceRoom == Cardinality(DOMAIN invoices) + Cardinality(Creating({"createInvoice", "createSubscription"})) < MaxRows
SubRoom == Cardinality(DOMAIN subs) + Cardinality(Creating({"createSubscription"})) < MaxRows

\* -------------------------------------------------------- createInvoice
StartCreateInvoice(p, subscriptionId, productKey) ==
  /\ InvoiceRoom
  /\ Begin(p, "createInvoice", subscriptionId, "ci_rpc",
           [LocInit EXCEPT !.sub = [NoSub EXCEPT !.id = subscriptionId],
                           !.product = productKey], MaxCalls)

\* sendChiaRPCCommand(GET_NEW_PAYMENT_ADDRESS) answered with an address.
CiRpcAddress(p) ==
  /\ pc[p] = "ci_rpc"
  /\ nextAddress' = nextAddress + 1
  /\ Goto(p, "ci_insert", [loc[p] EXCEPT !.address = nextAddress, !.seen = "address"])
  /\ UNCHANGED <<now, chain, db, op, arg, hist, calls>>

\* The gateway fails or answers without an address.  Both the rejected await
\* and `throw new Error(...)` happen outside the try block of the executor.
CiRpcNoAddress(p) ==
  /\ pc[p] = "ci_rpc"
  /\ Abandon(p, [loc[p] EXCEPT !.seen = "noaddress"])
  /\ UNCHANGED <<env, db, op, arg, hist, calls>>

\* The row of INSERT INTO invoices (...) VALUES (..., 'unpaid').  The INSERT
\* names no amount_paid; the column starts empty, counted as 0.
NewInvoice(subscriptionId, amount, address) ==
  [subscription_id |-> subscriptionId, total_amount_due |-> amount,
   amount_paid |-> 0, xch_payment_address |-> address, status |-> "unpaid"]

CiInsert(p) ==
  /\ pc[p] = "ci_insert"
  /\ LET guid == Cardinality(DOMAIN invoices) + 1
         row == NewInvoice(loc[p].sub.id, Products[loc[p].product].cost, loc[p].address) IN
     /\ invoices' = (guid :> row) @@ invoices
     /\ Goto(p, "ci_notify", [loc[p] EXCEPT !.guid = guid, !.inv = row])
  /\ UNCHANGED <<env, subs, payments, op, arg, hist, calls>>

\* getUserBy, getConfigurationFile and sendEmail answered; resolve.  Inside
\* createSubscription the caller resolves with the subscription id.
CiNotify(p) ==
  /\ pc[p] = "ci_notify"
  /\ Resolve(p, IF op[p] = "createSubscription" THEN IdResult(loc[p].sub.id)
                                                ELSE InvoiceResult(loc[p].inv), loc[p])
  /\ UNCHANGED <<env, db, op, arg, hist, calls>>

\* sendEmail fails after the invoice row was inserted: the await is inside
\* the try block, so the catch rejects (and createSubscription's inner catch
\* rejects in turn).
CiEmailFails(p) ==
  /\ pc[p] = "ci_notify"
  /\ Reject(p, [loc[p] EXCEPT !.seen = "emailfailed"])
  /\ UNCHANGED <<env, db, op, arg, hist, calls>>

\* ---------------------------------------------------- createSubscription
StartCreateSubscription(p, productKey) ==
  /\ InvoiceRoom
  /\ SubRoom
  /\ Begin(p, "createSubscription", 0, "cs_config",
           [LocInit EXCEPT !.day = now, !.product = productKey], MaxCalls)

\* getConfigurationFile("products.config.json") answered; `if (!product)`.
CsConfig(p) ==
  /\ pc[p] = "cs_config"
  /\ IF loc[p].product \notin ProductKeys
       THEN Reject(p, loc[p])
       ELSE Goto(p, "cs_insert", loc[p])
  /\ UNCHANGED <<env, db, op, arg, hist, calls>>

\* The catalog cannot be loaded: the rejected await is outside the try block.
CsConfigFails(p) ==
  /\ pc[p] = "cs_config"
  /\ Abandon(p, loc[p])
  /\ UNCHANGED <<env, db, op, arg, hist, calls>>

\* The row of INSERT INTO subscriptions (...) VALUES (..., 'pending', :data).
NewSubscription(startDate, productKey) ==
  [status |-> "pending", end_date |-> startDate + YearDays,
   cmd |-> Products[productKey].cmd]

\* The insert, then createInvoice(userId, subscriptionId, product) begins.
CsInsert(p) ==
  /\ pc[p] = "cs_insert"
  /\ LET id == Cardinality(DOMAIN subs) + 1 IN
     /\ subs' = (id :> NewSubscription(loc[p].day, loc[p].product)) @@ subs
     /\ Goto(p, "ci_rpc", [loc[p] EXCEPT !.sub = [NoSub EXCEPT !.id = id]])
  /\ UNCHANGED <<env, invoices, payments, op, arg, hist, calls>>

\* ----------------------------------------------------- renewSubscription
StartRenewSubscription(p, subscriptionId) ==
  Begin(p, "renewSubscription", subscriptionId, "rs_select", LocInit, MaxCalls)

\* The check left out.
NeverTerminated(sub) == FALSE

\* `if (subscription.status === "terminated")`
IsTerminated(sub) == sub.status = "terminated"

RsSelect(p) ==
  /\ pc[p] = "rs_select"
  /\ IF arg[p] \notin DOMAIN subs
       THEN Reject(p, loc[p])
       ELSE IF IsTerminated(SubRow(arg[p]))
              THEN Reject(p, [loc[p] EXCEPT !.seen = "terminated"])
              ELSE Goto(p, "rs_update", [loc[p] EXCEPT !.sub = SubRow(arg[p])])
  /\ UNCHANGED <<env, db, op, arg, hist, calls>>

\* One year from the clock instead of from the stored end date.
NewEndDateFromNow(endDate) == now + YearDays

\* newEndDate.setFullYear(newEndDate.getFullYear() + 1)
NewEndDate(endDate) == endDate + YearDays

\* UPDATE subscriptions SET end_date = :newEndDate WHERE id = :subscriptionId
RsUpdate(p) ==
  /\ pc[p] = "rs_update"
  /\ LET newEndDate == NewEndDate(loc[p].sub.end_date) IN
     /\ subs' = [subs EXCEPT ![arg[p]].end_date = newEndDate]
     /\ Resolve(p, SubResult([loc[p].sub EXCEPT !.end_date = newEndDate]), loc[p])
  /\ UNCHANGED <<env, invoices, payments, op, arg, hist, calls>>

\* ------------------------------------------------- terminateSubscription
StartTerminateSubscription(p, subscriptionId) ==
  Begin(p, "terminateSubscription", subscriptionId, "ts_select", LocInit, MaxCalls)

TsSelect(p) ==
  /\ pc[p] = "ts_select"
  /\ IF arg[p] \notin DOMAIN subs
       THEN Reject(p, loc[p])
       ELSE Goto(p, "ts_update", [loc[p] EXCEPT !.sub = SubRow(arg[p])])
  /\ UNCHANGED <<env, db, op, arg, hist, calls>>

\* UPDATE subscriptions SET status = 'terminated' WHERE id = :subscriptionId
Terminate(sub) == [sub EXCEPT !.status = "terminated"]

TsUpdate(p) ==
  /\ pc[p] = "ts_update"
  /\ subs' = [subs EXCEPT ![arg[p]] = Terminate(@)]
  /\ Resolve(p, SubResult([loc[p].sub EXCEPT !.status = "terminated"]), loc[p])
  /\ UNCHANGED <<env, invoices, payments, op, arg, hist, calls>>

\* ------------------------------------------ setSubscriptionsToGracePeriod
\* currentDate.setHours(0, 0, 0, 0) is taken when the function is entered.
StartSetSubscriptionsToGracePeriod(p) ==
  Begin(p, "setSubscriptionsToGracePeriod", 0, "gp_select",
        [LocInit EXCEPT !.day = now], MaxCalls)

\* WHERE s.status = 'active' AND s.end_date = :currentDate
\* Dates are whole days here, so the comparison is by date.
ExpiredToday(currentDate) ==
  {id \in DOMAIN subs : subs[id].status = "active" /\ subs[id].end_date = currentDate}

GpSelect(p) ==
  /\ pc[p] = "gp_select"
  /\ LET rows == ExpiredToday(loc[p].day) IN
     IF rows = {}
       THEN Resolve(p, CountResult(0), loc[p])
       ELSE Goto(p, "gp_update", [loc[p] EXCEPT !.ids = rows])
  /\ UNCHANGED <<env, db, op, arg, hist, calls>>

\* An UPDATE that matches no row.
KeepStatus(table, ids) == table

\* UPDATE subscriptions SET status = 'grace_period' WHERE id IN (:subscriptionIds)
ToGracePeriod(table, ids) ==
  [id \in DOMAIN table |->
     IF id \in ids THEN [table[id] EXCEPT !.status = "grace_period"] ELSE table[id]]

GpUpdate(p) ==
  /\ pc[p] = "gp_update"
  /\ subs' = ToGracePeriod(subs, loc[p].ids)
  /\ Goto(p, "gp_emails", loc[p])
  /\ UNCHANGED <<env, invoices, payments, op, arg, hist, calls>>

\* await Promise.all(emailPromises): every sendEmail failure is caught in its
\* own callback; then resolve(result.affectedRows).
GpEmails(p) ==
  /\ pc[p] = "gp_emails"
  /\ Resolve(p, CountResult(Cardinality(loc[p].ids)), loc[p])
  /\ UNCHANGED <<env, db, op, arg, hist, calls>>

\* ---------------------------------------- checkSubscriptionsForExpiration
StartCheckSubscriptionsForExpiration(p) ==
  Begin(p, "checkSubscriptionsForExpiration", 0, "ce_config",
        [LocInit EXCEPT !.day = now], MaxCalls)

\* getConfigurationFile("app.config.json") answered.
CeConfig(p) ==
  /\ pc[p] = "ce_config"
  /\ Goto(p, "ce_select", loc[p])
  /\ UNCHANGED <<env, db, op, arg, hist, calls>>

\* WHERE s.status = 'active' AND s.end_date BETWEEN :currentDate AND :expirationDate
ExpiringSoon(currentDate) ==
  {id \in DOMAIN subs : /\ subs[id].status = "active"
                        /\ subs[id].end_date >= currentDate
                        /\ subs[id].end_date <= currentDate + ExpirationDays}

\* The select, then rows.map(...) and `await Promise.all(invoicePromises)`.
\* Every callback calls createInvoice(subscription.id): `product` is undefined,
\* `product.cost` throws at the top of createInvoice's executor, outside its
\* try block, so that promise never settles and neither does Promise.all.
CeSelect(p) ==
  /\ pc[p] = "ce_select"
  /\ LET rows == ExpiringSoon(loc[p].day) IN
     IF rows = {}
       THEN Resolve(p, VoidResult, loc[p])
       ELSE Abandon(p, [loc[p] EXCEPT !.seen = "expiring"])
  /\ UNCHANGED <<env, db, op, arg, hist, calls>>

\* ------------------------------------------------ failing collaborators
\* Awaits inside a try block whose catch calls reject(error).
CaughtSteps == {"cfp_select", "cfp_rpc", "cfp_insert", "cfp_update",
                "cp_mark", "cp_select_sub", "cp_update_sub", "cp_rpc",
                "ci_insert", "ci_notify", "cs_insert",
                "rs_select", "rs_update", "ts_select", "ts_update",
                "gp_select", "gp_update", "ce_config", "ce_select"}

\* The awaited storage / gateway / notifier call fails and the catch block
\* rejects (terminateSubscription: rethrows).
Fail(p) ==
  /\ pc[p] \in CaughtSteps
  /\ Reject(p, [loc[p] EXCEPT !.seen = IF pc[p] = "cfp_rpc" THEN "error" ELSE @])
  /\ UNCHANGED <<env, db, op, arg, hist, calls>>

GuidArgs == 1..MaxRows
SubArgs == 1..MaxRows

Init ==
  /\ now = 0
  /\ \E k \in ProductKeys, e \in {0, YearDays} :
       /\ subs = (1 :> [status |-> "pending", end_date |-> e, cmd |-> Products[k].cmd])
       /\ invoices = (1 :> NewInvoice(1, Products[k].cost, 1))
  /\ nextAddress = 2
  /\ payments = <<>>
  /\ chain = [n \in TxNames |-> "absent"]
  /\ pc = [p \in Procs |-> "idle"]
  /\ op = [p \in Procs |-> "none"]
  /\ arg = [p \in Procs |-> 0]
  /\ loc = [p \in Procs |-> LocInit]
  /\ settled = [p \in Procs |-> "none"]
  /\ result = [p \in Procs |-> NoResult]
  /\ activations = [g \in GuidArgs |-> 0]
  /\ dispatches = [g \in GuidArgs |-> 0]
  /\ ingested = [g \in GuidArgs |-> [n \in TxNames |-> 0]]
  /\ reported = [g \in GuidArgs |-> 0]
  /\ calls = 0

CfpStep(p) ==
  \/ CfpSelect(p) \/ CfpRpcList(p) \/ CfpRpcNoResult(p) \/ CfpInsert(p) \/ CfpUpdate(p)
  \/ CpMark(p) \/ CpSelectSub(p) \/ CpUpdateSub(p) \/ CpRpc(p)
  \/ Fail(p)

Step(p) ==
  \/ CfpStep(p)
  \/ CiRpcAddress(p) \/ CiRpcNoAddress(p) \/ CiInsert(p) \/ CiNotify(p)
  \/ CiEmailFails(p)
  \/ CsConfig(p) \/ CsConfigFails(p) \/ CsInsert(p)
  \/ RsSelect(p) \/ RsUpdate(p)
  \/ TsSelect(p) \/ TsUpdate(p)
  \/ GpSelect(p) \/ GpUpdate(p) \/ GpEmails(p)
  \/ CeConfig(p) \/ CeSelect(p)

Start(p) ==
  \/ \E g \in GuidArgs : StartCheckForPayment(p, g)
  \/ \E g \in GuidArgs : StartConfirmPayment(p, g)
  \/ \E s \in DOMAIN subs, k \in ProductKeys : StartCreateInvoice(p, s, k)
  \/ \E k \in ProductKeys \cup {"unknown"} : StartCreateSubscription(p, k)
  \/ \E s \in SubArgs : StartRenewSubscription(p, s)
  \/ \E s \in SubArgs : StartTerminateSubscription(p, s)
  \/ StartSetSubscriptionsToGracePeriod(p)
  \/ StartCheckSubscriptionsForExpiration(p)

Env == Tick \/ \E n \in TxNames : ChainAdvance(n)

\* Any caller may invoke any exported function at any time.
Next == Env \/ \E p \in Procs : Start(p) \/ Step(p)

Spec == Init /\ [][Next]_vars

\* A single poller calls checkForPayment again and again, one call at a time.
NextSerial ==
  Env \/ \E p \in Procs : (\E g \in GuidArgs : StartSerialCheckForPayment(p, g)) \/ CfpStep(p)

SpecSerial == Init /\ [][NextSerial]_vars

\* Pollers call checkForPayment with no coordination between them.
NextPoll ==
  Env \/ \E p \in Procs : (\E g \in GuidArgs : StartCheckForPayment(p, g)) \/ CfpStep(p)

SpecPoll == Init /\ [][NextPoll]_vars

\* ---------------------------------------------- lifecycle, one call at a time
\* Two subscriptions, each created with its first invoice, none paid yet.
InitLife ==
  /\ now = 0
  /\ \E k \in ProductKeys, e \in [1..MaxRows -> {0, YearDays}] :
       /\ subs = [s \in 1..MaxRows |->
                    [status |-> "pending", end_date |-> e[s], cmd |-> Products[k].cmd]]
       /\ invoices = [g \in 1..MaxRows |-> NewInvoice(g, Products[k].cost, g)]
  /\ nextAddress = MaxRows + 1
  /\ payments = <<>>
  /\ chain = [n \in TxNames |-> "absent"]
  /\ pc = [p \in Procs |-> "idle"]
  /\ op = [p \in Procs |-> "none"]
  /\ arg = [p \in Procs |-> 0]
  /\ loc = [p \in Procs |-> LocInit]
  /\ settled = [p \in Procs |-> "none"]
  /\ result = [p \in Procs |-> NoResult]
  /\ activations = [g \in GuidArgs |-> 0]
  /\ dispatches = [g \in GuidArgs |-> 0]
  /\ ingested = [g \in GuidArgs |-> [n \in TxNames |-> 0]]
  /\ reported = [g \in GuidArgs |-> 0]
  /\ calls = 0

StartLife(p) ==
  \/ \E g \in GuidArgs :
       BeginInTurn(p, "confirmPayment", g, "cp_mark", LocInit, MaxLifeCalls)
  \/ \E s \in SubArgs :
       BeginInTurn(p, "renewSubscription", s, "rs_select", LocInit, MaxLifeCalls)
  \/ \E s \in SubArgs :
       BeginInTurn(p, "terminateSubscription", s, "ts_select", LocInit, MaxLifeCalls)
  \/ BeginInTurn(p, "setSubscriptionsToGracePeriod", 0, "gp_select",
                 [LocInit EXCEPT !.day = now], MaxLifeCalls)

LifeStep(p) ==
  \/ CpMark(p) \/ CpSelectSub(p) \/ CpUpdateSub(p) \/ CpRpc(p)
  \/ RsSelect(p) \/ RsUpdate(p)
  \/ TsSelect(p) \/ TsUpdate(p)
  \/ GpSelect(p) \/ GpUpdate(p) \/ GpEmails(p)
  \/ Fail(p)

\* A scheduler and an operator invoke the lifecycle functions one at a time.
NextLife == Tick \/ \E p \in Procs : StartLife(p) \/ LifeStep(p)

SpecLife == InitLife /\ [][NextLife]_vars

\* ------------------------------------------------- a poller that never stops
\* checkForPayment called again, for as long as the process runs.
StartRepeatedCheckForPayment(p, invoiceId) ==
  /\ Quiet
  /\ \A q \in Procs : Free(q) => p <= q
  /\ Enter(p, "checkForPayment", invoiceId, "cfp_select", LocInit)
  /\ UNCHANGED calls

NextLive ==
  Env \/ \E p \in Procs : (\E g \in GuidArgs : StartRepeatedCheckForPayment(p, g)) \/ CfpStep(p)

\* Every invoice keeps being polled, an invocation that can take a step takes
\* one, and none of the awaited storage and gateway calls fails every time it
\* is made.
FairLive ==
  /\ \A g \in GuidArgs : SF_vars(\E p \in Procs : StartRepeatedCheckForPayment(p, g))
  /\ WF_vars(\E p \in Procs : CfpStep(p))
  /\ SF_vars(\E p \in Procs : CfpSelect(p))
  /\ SF_vars(\E p \in Procs : CfpRpcList(p))
  /\ SF_vars(\E p \in Procs : CfpInsert(p))
  /\ SF_vars(\E p \in Procs : CfpUpdate(p))
  /\ SF_vars(\E p \in Procs : CpMark(p))
  /\ SF_vars(\E p \in Procs : CpSelectSub(p))
  /\ SF_vars(\E p \in Procs : CpUpdateSub(p))
  /\ SF_vars(\E p \in Procs : CpRpc(p))

SpecLive == Init /\ [][NextLive]_vars /\ FairLive

\* ================================================================ claims
Polling(p) == op[p] = "checkForPayment"

\* Sum of `amount` over the payment rows of an invoice.
RECURSIVE SumRows(_, _)
SumRows(rows, guid) ==
  IF rows = <<>> THEN 0
  ELSE (IF Head(rows).invoice_guid = guid THEN Head(rows).amount ELSE 0)
       + SumRows(Tail(rows), guid)

\* Number of payment rows of an (invoice guid, transaction identifier) pair.
RowCount(guid, name) ==
  Cardinality({i \in 1..Len(payments) :
                 payments[i].invoice_guid = guid /\ payments[i].coin_name = name})

\* C1: when the calls of a single poller run one at a time, then after each
\* call has ended every invoice's amount_paid equals the sum of the amounts
\* of its payment rows.
C1_AmountPaidIsSumOfPayments ==
  Quiet => \A g \in DOMAIN invoices : invoices[g].amount_paid = SumRows(payments, g)

\* C2: however checkForPayment invocations on an invoice interleave, its
\* subscription is set active at most once and the activation command is
\* dispatched at most once.
C2_ActivatedAtMostOnce ==
  \A g \in DOMAIN invoices : activations[g] <= 1 /\ dispatches[g] <= 1

\* C3: a confirmed transaction ingested for an invoice, once or many times,
\* by repeated or by overlapping polls, has exactly one payment row for its
\* (invoice guid, transaction identifier) pair; one never ingested has none.
C3_OneRowPerTransaction ==
  \A g \in GuidArgs, n \in TxNames :
     RowCount(g, n) = IF ingested[g][n] > 0 THEN 1 ELSE 0

\* Two polls of the same invoice overlap and both have inserted the same
\* transaction.
C3_Witness ==
  \E g \in GuidArgs, n \in TxNames :
     /\ ingested[g][n] >= 2
     /\ RowCount(g, n) = 1
     /\ \A p \in Procs : Polling(p) /\ arg[p] = g /\ pc[p] \in {"cfp_insert", "cfp_update"}

\* C4: the step in which checkForPayment has loaded an invoice whose status is
\* paid ends the invocation: it adds no payment row, leaves the invoices and
\* subscriptions tables as they are, activates and dispatches nothing, never
\* reaches the gateway query and resolves with the invoice as stored (it
\* rejects only when the load itself fails).
C4_PaidInvoiceIsNoOp ==
  [][\A p \in Procs :
       (/\ Polling(p)
        /\ pc[p] = "cfp_select"
        /\ pc'[p] # "cfp_select"
        /\ arg[p] \in DOMAIN invoices
        /\ invoices[arg[p]].status = "paid")
       => /\ payments' = payments
          /\ invoices' = invoices
          /\ subs' = subs
          /\ activations' = activations
          /\ dispatches' = dispatches
          /\ pc'[p] = "done"
          /\ settled'[p] \in {"resolved", "rejected"}
          /\ settled'[p] = "resolved" => result'[p] = InvoiceResult(invoices[arg[p]])]_vars

\* A poll of a paid invoice has resolved with that invoice.
C4_Witness ==
  \E p \in Procs :
     /\ Polling(p)
     /\ settled[p] = "resolved"
     /\ result[p] = InvoiceResult(invoices[arg[p]])
     /\ invoices[arg[p]].status = "paid"
     /\ activations[arg[p]] = 1

\* C5: polled by one poller, one call at a time, while confirmed transactions
\* arrive in installments: the invoice is unpaid (and nothing is activated) as
\* long as no gateway answer showed a confirmed total of at least
\* total_amount_due, a call that saw such a total and resolved leaves it paid,
\* and once it is paid and the call has ended the subscription has been
\* activated, and its command dispatched, exactly once.
C5_SettlesOnceWhenCovered ==
  Quiet =>
    \A g \in DOMAIN invoices :
       /\ reported[g] < invoices[g].total_amount_due
            => invoices[g].status = "unpaid" /\ activations[g] = 0 /\ dispatches[g] = 0
       /\ \A p \in Procs :
            (/\ Polling(p) /\ arg[p] = g /\ settled[p] = "resolved"
             /\ loc[p].seen = "confirmed"
             /\ loc[p].sum >= invoices[g].total_amount_due)
            => invoices[g].status = "paid"
       /\ invoices[g].status = "paid" => activations[g] = 1 /\ dispatches[g] = 1

\* C6: a checkForPayment whose gateway answer was a valid list holding no
\* confirmed transaction (none at all, or unconfirmed ones only) does not
\* fail: it resolves, and the invoice stays unpaid.
C6_EmptyResultIsNotAnError ==
  \A p \in Procs :
     (Polling(p) /\ pc[p] = "done" /\ loc[p].seen = "unconfirmed")
     => settled[p] = "resolved"

\* C7: a subscription whose status is terminated keeps that status in every
\* later state.
C7_TerminatedIsTerminal ==
  [][\A s \in DOMAIN subs :
       subs[s].status = "terminated" => subs'[s].status = "terminated"]_vars

\* C8: an invoice row is never removed, a new invoice row is created unpaid,
\* and an invoice whose status is paid is paid in the next state too.
C8_PaidIsTerminal ==
  [][/\ \A g \in DOMAIN invoices :
          /\ g \in DOMAIN invoices'
          /\ invoices[g].status = "paid" => invoices'[g].status = "paid"
     /\ \A g \in DOMAIN invoices' \ DOMAIN invoices :
          invoices'[g].status = "unpaid"]_vars

\* An invoice was paid by a poll, and another invoice was created unpaid.
C8_Witness ==
  /\ Cardinality(DOMAIN invoices) = 2
  /\ invoices[1].status = "paid"
  /\ invoices[2].status = "unpaid"
  /\ reported[1] > 0

\* C9: a createInvoice to which the gateway gave no payment address ends with
\* its promise rejected, and it has created no invoice row.
C9_NoAddressRejects ==
  \A p \in Procs :
     (op[p] = "createInvoice" /\ pc[p] = "done" /\ loc[p].seen = "noaddress")
     => settled[p] = "rejected"

\* C10: an invocation of any exported function whose code has run to its end
\* (every call it awaited has returned or failed) has resolved or rejected the
\* promise it returned.
C10_EveryInvocationSettles ==
  \A p \in Procs : pc[p] = "done" => settled[p] \in {"resolved", "rejected"}

\* Invoices of a subscription that are waiting for payment.
UnpaidInvoices(s) ==
  {g \in DOMAIN invoices : invoices[g].subscription_id = s /\ invoices[g].status = "unpaid"}

\* C11: a checkSubscriptionsForExpiration that found active subscriptions
\* ending within the next 15 days completes (its promise resolves, whatever
\* happened to single subscriptions), and each subscription it found that is
\* still active and within the window has a renewal invoice waiting for
\* payment.
C11_ExpirationBatchCompletes ==
  \A p \in Procs :
     (/\ op[p] = "checkSubscriptionsForExpiration"
      /\ pc[p] = "done"
      /\ loc[p].seen = "expiring")
     => /\ settled[p] = "resolved"
        /\ \A s \in ExpiringSoon(loc[p].day) : UnpaidInvoices(s) # {}

\* C12: a createInvoice or createSubscription whose invoice row was inserted
\* and whose invoice email then failed to send resolves all the same.
C12_EmailFailureIsNotReturned ==
  \A p \in Procs :
     (/\ op[p] \in {"createInvoice", "createSubscription"}
      /\ pc[p] = "done"
      /\ loc[p].seen = "emailfailed")
     => settled[p] = "resolved"

Renewing(p) == op[p] = "renewSubscription"

\* C13: the step in which renewSubscription has loaded a subscription whose
\* status is terminated ends the invocation with its promise rejected, and
\* leaves the subscriptions table (end date and status) as it is.
C13_TerminatedIsNotRenewed ==
  [][\A p \in Procs :
       (/\ Renewing(p)
        /\ pc[p] = "rs_select"
        /\ pc'[p] # "rs_select"
        /\ arg[p] \in DOMAIN subs
        /\ subs[arg[p]].status = "terminated")
       => /\ pc'[p] = "done"
          /\ settled'[p] = "rejected"
          /\ subs' = subs]_vars

\* A renewal of a terminated subscription was refused.
C13_Witness ==
  \E p \in Procs :
     /\ Renewing(p)
     /\ settled[p] = "rejected"
     /\ loc[p].seen = "terminated"
     /\ subs[arg[p]].status = "terminated"

\* C14: the step in which a renewSubscription resolves has moved the stored
\* end date of its subscription exactly one year on from the end date stored
\* before, whatever the clock shows, has left the status alone, and resolves
\* with the record as loaded carrying the new end date.
C14_RenewAddsOneYear ==
  [][\A p \in Procs :
       (Renewing(p) /\ pc[p] = "rs_update" /\ settled'[p] = "resolved")
       => /\ subs[arg[p]].status \in {"pending", "active", "grace_period"}
          /\ subs'[arg[p]].end_date = subs[arg[p]].end_date + YearDays
          /\ subs'[arg[p]].status = subs[arg[p]].status
          /\ \A s \in DOMAIN subs \ {arg[p]} : subs'[s] = subs[s]
          /\ result'[p] = SubResult([SubRow(arg[p]) EXCEPT
                                       !.end_date = subs[arg[p]].end_date + YearDays])]_vars

\* A subscription in its grace period was renewed on a day other than its
\* end date, and now ends one year after that end date.
C14_Witness ==
  \E p \in Procs :
     /\ Renewing(p)
     /\ settled[p] = "resolved"
     /\ result[p].value.status = "grace_period"
     /\ result[p].value.end_date = YearDays
     /\ subs[arg[p]].end_date = YearDays
     /\ now = 1

\* The slot of the call made last, and the slot of the call made before it.
Latest == ((calls + Cardinality(Procs) - 1) % Cardinality(Procs)) + 1
Previous == (calls % Cardinality(Procs)) + 1

GraceRun(p) == op[p] = "setSubscriptionsToGracePeriod"

\* C15: when setSubscriptionsToGracePeriod has resolved, no subscription that
\* is active ends on the day of that run (each one that did is in its grace
\* period); and a second run made right after a resolved one, on the same
\* day, changes no subscription and, when it resolves, resolves with 0.
C15_SecondGraceRunFindsNone ==
  /\ [](calls > 0 /\ GraceRun(Latest) /\ settled[Latest] = "resolved"
          => ExpiredToday(loc[Latest].day) = {})
  /\ [](/\ calls > 1
         /\ GraceRun(Previous) /\ settled[Previous] = "resolved"
         /\ GraceRun(Latest) /\ settled[Latest] = "resolved"
         /\ loc[Latest].day = loc[Previous].day
         => result[Latest] = CountResult(0))
  /\ [][(/\ calls > 1
          /\ GraceRun(Previous) /\ settled[Previous] = "resolved"
          /\ GraceRun(Latest)
          /\ loc[Latest].day = loc[Previous].day
          /\ calls' = calls)
         => subs' = subs]_vars

\* The first run moved both subscriptions into their grace period and the
\* second run, on the same day, has resolved.
C15_Witness ==
  /\ calls > 1
  /\ GraceRun(Previous) /\ result[Previous] = CountResult(2)
  /\ GraceRun(Latest) /\ settled[Latest] = "resolved"
  /\ loc[Latest].day = loc[Previous].day
  /\ \A s \in DOMAIN subs : subs[s].status = "grace_period"

\* C16: an invoice whose status is paid has amount_paid at least
\* total_amount_due, in every state, however checkForPayment invocations on
\* it interleave.
C16_PaidCoversTotal ==
  \A g \in DOMAIN invoices :
     invoices[g].status = "paid" => invoices[g].amount_paid >= invoices[g].total_amount_due

\* C17: once every checkForPayment invocation has ended, and each that is
\* still on record for an invoice resolved, amount_paid of that invoice
\* equals the sum of the amounts of its payment rows.
C17_ConcurrentPollsKeepSum ==
  Quiet =>
    \A g \in DOMAIN invoices :
       (/\ \E p \in Procs : Polling(p) /\ arg[p] = g
        /\ \A p \in Procs : Polling(p) /\ arg[p] = g => settled[p] = "resolved")
       => invoices[g].amount_paid = SumRows(payments, g)

\* C18: while every invoice keeps being polled and no storage or gateway
\* call fails forever, an invoice that is paid leads to its subscription
\* having been set active and its activation command dispatched.
C18_PaidLeadsToActivation ==
  \A g \in GuidArgs :
     (g \in DOMAIN invoices /\ invoices[g].status = "paid")
       ~> (activations[g] >= 1 /\ dispatches[g] >= 1)

\* Display-unit total of the transactions at an address that the chain shows
\* as confirmed.
ChainTotal(address) ==
  ConfirmedTotal(SelectSeq(GetTransactions(address),
                           LAMBDA t : chain[t.name] = "confirmed"))

\* Steps of checkForPayment that come after its insert loop.
PastInserts == {"cfp_update", "cp_mark", "cp_select_sub", "cp_update_sub", "cp_rpc"}

\* C19: every payment row is the row of a transaction the gateway reports as
\* confirmed, with that transaction's amount; amount_paid never exceeds the
\* total of the confirmed transactions at the invoice's address (unconfirmed
\* ones add nothing); and a poll that has finished its inserts has a row for
\* everything its gateway answer showed as confirmed.
C19_OnlyConfirmedIsRecorded ==
  /\ \A i \in 1..Len(payments) :
        /\ chain[payments[i].coin_name] = "confirmed"
        /\ payments[i].amount = ToXch(TxAmount[payments[i].coin_name])
  /\ \A g \in DOMAIN invoices :
        invoices[g].amount_paid <= ChainTotal(invoices[g].xch_payment_address)
  /\ \A p \in Procs :
        (Polling(p) /\ pc[p] \in PastInserts) => SumRows(payments, arg[p]) >= loc[p].sum

\* One poll was answered with unconfirmed transactions only and recorded
\* nothing; a later answer to another poll of the same, still unpaid, invoice
\* showed a transaction confirmed, and that poll recorded it.
C19_Witness ==
  \E p, q \in Procs :
     /\ Polling(p) /\ pc[p] = "done" /\ loc[p].seen = "unconfirmed"
     /\ Polling(q) /\ arg[q] = arg[p] /\ pc[q] = "cfp_update"
     /\ loc[q].seen = "confirmed"
     /\ invoices[arg[q]].status = "unpaid"
     /\ SumRows(payments, arg[q]) = loc[q].sum
     /\ loc[q].sum > 0
     /\ \E n \in TxNames : chain[n] = "unconfirmed"

\* Invoices of a subscription that have been settled.
PaidInvoices(s) ==
  {g \in DOMAIN invoices : invoices[g].subscription_id = s /\ invoices[g].status = "paid"}

\* C20: a subscription row is created with status pending, and in every
\* state a subscription that is active or in its grace period has an invoice
\* whose status is paid.
C20_ActiveHasPaidInvoice ==
  /\ [](\A s \in DOMAIN subs :
          subs[s].status \in {"active", "grace_period"} => PaidInvoices(s) # {})
  /\ [][\A s \in DOMAIN subs' \ DOMAIN subs : subs'[s].status = "pending"]_vars

\* A subscription was created and is pending, and another one is active,
\* its invoice paid.
C20_Witness ==
  \E s, t \in DOMAIN subs :
     /\ s \notin {1}
     /\ subs[s].status = "pending"
     /\ subs[t].status = "active"
     /\ PaidInvoices(t) # {}
     /\ PaidInvoices(s) = {}

====
